---- MODULE Spec2Model ----
(***************************************************************************)
(* Synthetic Liquidity Ledger: accounts, journal entries, postings,        *)
(* obligations, settlement batches and the payout queue, as implemented by *)
(* src/src/engine.py on top of src/legacy/src-legacy/db.py.                *)
(*                                                                         *)
(* Every db.py helper runs execute_query, which opens a new SQLite         *)
(* connection, executes one statement and commits it.  Row ids are         *)
(* AUTOINCREMENT, so the id of a row is its position in its table.         *)
(***************************************************************************)
EXTENDS Integers, Sequences, FiniteSets, TLC

\* ------------------------------------------------------------------ bounds

\* Cap on the number of rows of journal_entries and of payout_queue.
MaxEntries == 2

\* Pool balances the model follows: no webhook credit takes a pool above it.
MaxBalance == 1000

\* Settlement proposals the rebalancing behaviours make.
MaxProposals == 3

\* ------------------------------------------------------------------ values

\* Python None / SQL NULL for the TEXT column external_id.
NoKey == "<None>"

\* Optional integers and booleans are sets: {} is None, {v} is the value v.
None == {}
Some(v) == {v}

\* fx_rates rows (usd_per_unit), in hundredths of a USD per unit.
FxRates == [GBP |-> 125, BRL |-> 20, EUR |-> 110, USD |-> 100]

\* Account tables created by the provisioning INSERTs: an initial
\* balance_minor and min_buffer_minor per account, and no posting.
AccountRow(kind, currency, balance, buffer) ==
    [kind |-> kind, currency |-> currency,
     balance_minor |-> balance, min_buffer_minor |-> buffer]

Provisionings ==
    { [POOL_UK  |-> AccountRow("POOL", "GBP", 5000, c[1]),
       WORKER_B |-> AccountRow("WORKER", c[2], 100, 0)] :
         c \in {<<1000, "EUR">>, <<4500, "EUR">>, <<1000, "JPY">>} }

\* ---------------------------------------------------------------- requests

PayoutRequest(f, t, a, k) ==
    [from_pool |-> f, to_pool |-> t, amount_minor |-> a, external_id |-> k]

\* POST /payout bodies and Idempotency-Key headers the model submits: both
\* directions between the two accounts, a payout of an account to itself, the
\* same key with two different bodies, the empty key, and unknown account ids.
PayoutRequests ==
    { PayoutRequest("WORKER_B", "POOL_UK", 3000, NoKey),
      PayoutRequest("WORKER_B", "POOL_UK", 27, NoKey),
      PayoutRequest("POOL_UK", "WORKER_B", 80, NoKey),
      PayoutRequest("POOL_UK", "WORKER_B", 3000, NoKey),
      PayoutRequest("POOL_UK", "POOL_UK", 80, NoKey),
      PayoutRequest("WORKER_B", "POOL_UK", 3000, "k1"),
      PayoutRequest("POOL_UK", "WORKER_B", 80, "k1"),
      PayoutRequest("WORKER_B", "POOL_UK", 3000, ""),
      PayoutRequest("GHOST", "POOL_UK", 3000, NoKey),
      PayoutRequest("WORKER_B", "GHOST", 3000, "k1") }

\* POST /admin/topup bodies.
TopupRequests ==
    { [account_id |-> "POOL_UK", amount_minor |-> 1000],
      [account_id |-> "GHOST", amount_minor |-> 1000],
      [account_id |-> "POOL_UK", amount_minor |-> -1000] }

\* Request handlers that run concurrently (FastAPI serves each request on its own).
Procs == {"p1", "p2"}

\* The payout requests that race: the same body with the same key or without one.
RaceRequests ==
    { PayoutRequest("WORKER_B", "POOL_UK", 3000, k) : k \in {"k1", NoKey} }

\* The countries _seed inserts, each with a pool of balance 0.
Countries == {"COUNTRY_A", "COUNTRY_B"}

\* The pools of the strict ledger: two with a configured currency and one whose
\* currency has no FX rate.
StrictPools ==
    [UK_GBP |-> [currency |-> "GBP", balance |-> 500],
     EU_EUR |-> [currency |-> "EUR", balance |-> 800],
     JP_JPY |-> [currency |-> "JPY", balance |-> 100]]

\* POST bodies of the strict ledger's transfer endpoint.
TransferRequest(from_pool_id, to_pool_id, amount_minor) ==
    [from_pool_id |-> from_pool_id, to_pool_id |-> to_pool_id,
     amount_minor |-> amount_minor]

TransferRequests ==
    { TransferRequest("UK_GBP", "EU_EUR", 300),
      TransferRequest("EU_EUR", "UK_GBP", 300),
      TransferRequest("EU_EUR", "UK_GBP", 900),
      TransferRequest("JP_JPY", "UK_GBP", 300),
      TransferRequest("GHOST", "UK_GBP", 300),
      TransferRequest("UK_GBP", "GHOST", 300) }

\* Bodies of the strict ledger's top-up endpoint.
StrictTopupRequests ==
    { [pool_id |-> "UK_GBP", amount_minor |-> 200],
      [pool_id |-> "GHOST", amount_minor |-> 200] }

\* No settle_obligations call is between its read and its write.
NoCall == [pc |-> "idle", fetched |-> {}, settlements |-> {}]

\* settle_run handlers that run concurrently with the payout handlers.
Runs == {"r1", "r2"}

\* POST /settle/run bodies.
Thresholds == {0, 30}

VARIABLES
    accounts,            \* accounts table: id -> row
    journal_entries,     \* journal_entries table (row i has id i)
    postings,            \* postings table
    obligations,         \* obligations table
    settlement_batches,  \* settlement_batches table
    payout_queue,        \* payout_queue table
    last,                \* the last request handled and its response
    opening,             \* history: balance_minor each account was provisioned with
    returned,            \* history: success responses returned so far, per external_id
    effects,             \* history: rows created by the calls bearing each external_id
    procs,               \* concurrent payout handlers: position and local variables
    runs,                \* concurrent settle_run handlers: position and local variables
    pools,               \* backend pools table: country code -> balance_minor
    payments,            \* backend payments table (row i has id i)
    settlements,         \* backend settlements table (row i has id i)
    reply,               \* the last backend request handled and its response
    strict_pools,        \* ledger.py pools table: id -> row
    strict_obligations,  \* ledger.py obligations table (row i has id i)
    transfers,           \* ledger.py transfers table (row i has id i)
    settle_call,         \* the settle_obligations call in progress, if any
    outcome              \* the last ledger.py call that returned and its result

vars == <<accounts, journal_entries, postings, obligations, settlement_batches,
          payout_queue, last, opening, returned, effects, procs, runs,
          pools, payments, settlements, reply,
          strict_pools, strict_obligations, transfers, settle_call, outcome>>

\* The tables of the backend application (backend/app/database.py); the ledger
\* handlers never touch them.
backend == <<pools, payments, settlements, reply>>

\* The state of the ledger application; the backend handlers never touch it.
ledger == <<accounts, journal_entries, postings, obligations, settlement_batches,
            payout_queue, last, opening, returned, effects, procs, runs>>

\* The state of the strict ledger (src/ledger.py over src/db.py), a separate
\* database that neither the journal ledger nor the backend touches.
strict == <<strict_pools, strict_obligations, transfers, settle_call, outcome>>

tables == <<accounts, journal_entries, postings, obligations, settlement_batches,
            payout_queue>>

\* Non-null idempotency keys the requests carry.
Keys == {r.external_id : r \in PayoutRequests} \ {NoKey}

\* ----------------------------------------------------------------- db.py

\* SELECT * FROM accounts WHERE id=?  (None when there is no such row)
fetch_account(account_id) ==
    IF account_id \in DOMAIN accounts THEN Some(accounts[account_id]) ELSE None

\* Mutant: the delta is applied without its sign, so a debit credits the account.
update_account_balance_unsigned(accts, account_id, amount_delta) ==
    [a \in DOMAIN accts |->
        IF a = account_id
        THEN [accts[a] EXCEPT !.balance_minor =
                 @ + (IF amount_delta < 0 THEN -amount_delta ELSE amount_delta)]
        ELSE accts[a]]

\* UPDATE accounts SET balance_minor = balance_minor + ? WHERE id = ?
update_account_balance(accts, account_id, amount_delta) ==
    [a \in DOMAIN accts |->
        IF a = account_id
        THEN [accts[a] EXCEPT !.balance_minor = @ + amount_delta]
        ELSE accts[a]]

\* SELECT usd_per_unit FROM fx_rates WHERE currency=?
fetch_fx_rate(currency) ==
    IF currency \in DOMAIN FxRates THEN Some(FxRates[currency]) ELSE None

\* SELECT * FROM journal_entries WHERE external_id = ?  (ids of the matching rows;
\* the UNIQUE constraint keeps them to at most one)
get_journal_entry_by_external_id(journal, external_id) ==
    { i \in DOMAIN journal : journal[i].external_id = external_id }

\* The UNIQUE constraint of journal_entries.external_id: an INSERT of a non-NULL
\* value that some row already holds fails with sqlite3.IntegrityError.
ViolatesUnique(journal, external_id) ==
    /\ external_id # NoKey
    /\ \E i \in DOMAIN journal : journal[i].external_id = external_id

\* "SELECT last_insert_rowid()" is run by execute_query on a connection of its
\* own, which has inserted nothing: SQLite answers 0 whatever the table holds.
last_insert_rowid(table) == 0

\* INSERT INTO journal_entries(created_at, type, external_id, metadata_json)
insert_journal_entry(journal, type, external_id, metadata_json) ==
    Append(journal, [id |-> Len(journal) + 1, type |-> type,
                     external_id |-> external_id, metadata_json |-> metadata_json])

\* UPDATE journal_entries SET metadata_json = ? WHERE id = ?
update_journal_entry_metadata(journal, entry_id, metadata_json) ==
    [i \in DOMAIN journal |->
        IF journal[i].id = entry_id
        THEN [journal[i] EXCEPT !.metadata_json = metadata_json]
        ELSE journal[i]]

\* INSERT INTO postings(entry_id, account_id, direction, amount_minor)
insert_posting(table, entry_id, account_id, direction, amount_minor) ==
    Append(table, [id |-> Len(table) + 1, entry_id |-> entry_id,
                   account_id |-> account_id, direction |-> direction,
                   amount_minor |-> amount_minor])

\* Mutant: the obligation is recorded in the opposite direction.
insert_obligation_reversed(table, from_pool, to_pool, amount_usd_cents) ==
    Append(table, [id |-> Len(table) + 1, from_pool |-> to_pool,
                   to_pool |-> from_pool, amount_usd_cents |-> amount_usd_cents,
                   status |-> "OPEN", settlement_batch_id |-> None])

\* INSERT INTO obligations(..., status, settlement_batch_id) VALUES(..., 'OPEN', NULL)
insert_obligation(table, from_pool, to_pool, amount_usd_cents) ==
    Append(table, [id |-> Len(table) + 1, from_pool |-> from_pool,
                   to_pool |-> to_pool, amount_usd_cents |-> amount_usd_cents,
                   status |-> "OPEN", settlement_batch_id |-> None])

\* INSERT INTO payout_queue(created_at, from_pool, to_pool, amount_minor, status)
insert_payout_queue(table, from_pool, to_pool, amount_minor, status) ==
    Append(table, [id |-> Len(table) + 1, from_pool |-> from_pool,
                   to_pool |-> to_pool, amount_minor |-> amount_minor,
                   status |-> status])

\* INSERT INTO settlement_batches(created_at, notes): notes is f"threshold={t}"
insert_settlement_batch(table, threshold) ==
    Append(table, [id |-> Len(table) + 1, notes |-> threshold])

\* Mutant: the rows are closed without recording the batch.
update_obligations_settled_no_batch(table, obligation_ids, settlement_batch_id) ==
    [i \in DOMAIN table |->
        IF table[i].id \in obligation_ids
        THEN [table[i] EXCEPT !.status = "SETTLED"]
        ELSE table[i]]

\* Mutant: the WHERE id IN (...) clause is missing, every OPEN row is settled.
update_all_open_obligations_settled(table, obligation_ids, settlement_batch_id) ==
    [i \in DOMAIN table |->
        IF table[i].status = "OPEN"
        THEN [table[i] EXCEPT !.status = "SETTLED",
                              !.settlement_batch_id = Some(settlement_batch_id)]
        ELSE table[i]]

\* UPDATE obligations SET status = 'SETTLED', settlement_batch_id = ? WHERE id IN (...)
update_obligations_settled(table, obligation_ids, settlement_batch_id) ==
    [i \in DOMAIN table |->
        IF table[i].id \in obligation_ids
        THEN [table[i] EXCEPT !.status = "SETTLED",
                              !.settlement_batch_id = Some(settlement_batch_id)]
        ELSE table[i]]

\* --------------------------------------------------------------- engine.py

\* Python 3 round(): to the nearest integer, ties to the even one; here of n / d.
RoundHalfEven(n, d) ==
    LET q == n \div d
        r == n % d
    IN  IF 2 * r < d THEN q
        ELSE IF 2 * r > d THEN q + 1
        ELSE IF q % 2 = 0 THEN q ELSE q + 1

\* int(round((amount_minor / 100.0) * rate * 100)), rate in hundredths
convert_to_usd_cents(amount_minor, rate) ==
    RoundHalfEven(amount_minor * rate, 100)

\* Mutant: the amount is converted at the rate of the paying account's currency.
RateCurrency_of_dest(source, dest) == dest.currency

\* convert_to_usd_cents(amount_minor, source["currency"]): the currency whose rate
\* converts the amount is the one of the account named by from_pool.
RateCurrency(source, dest) == source.currency

\* "if external_id:" is false for None and for the empty string
Truthy(external_id) == external_id # NoKey /\ external_id # ""

\* Mutant: the check forgets the buffer.
HasLiquidity_no_buffer(dest_balance, amount_minor, dest_buffer) ==
    dest_balance >= amount_minor

\* dest_balance >= amount_minor and (dest_balance - amount_minor) >= dest_buffer
HasLiquidity(dest_balance, amount_minor, dest_buffer) ==
    /\ dest_balance >= amount_minor
    /\ (dest_balance - amount_minor) >= dest_buffer

\* data.get(key): None when the JSON object has no such key
JsonGet(data, key) == IF key \in DOMAIN data THEN Some(data[key]) ELSE None

PayoutResponse(queued, journal_entry_id, obligation_id, amount_usd_cents, payout_queue_id) ==
    [queued |-> queued, journal_entry_id |-> journal_entry_id,
     obligation_id |-> obligation_id, amount_usd_cents |-> amount_usd_cents,
     payout_queue_id |-> payout_queue_id]

\* The response of the idempotent path, decoded from the stored entry.
ReplayResponse(existing) ==
    IF existing.metadata_json # None
    THEN LET data == CHOOSE d \in existing.metadata_json : TRUE
         IN  PayoutResponse(IF "queued" \in DOMAIN data THEN data["queued"] ELSE FALSE,
                            Some(existing.id),
                            JsonGet(data, "obligation_id"),
                            JsonGet(data, "amount_usd_cents"),
                            JsonGet(data, "payout_queue_id"))
    ELSE PayoutResponse(FALSE, Some(existing.id), None, None, None)

\* ------------------------------------------------------------ bookkeeping

NoEffect == [postings |-> 0, obligations |-> 0, queue_items |-> 0, entries |-> 0]

\* Record the request just handled, its outcome and (for a success that bears a
\* non-null key) the response body among those returned for that key.
Finish(op, req, status, resp) ==
    /\ last' = [op |-> op, req |-> req, status |-> status, resp |-> resp]
    /\ returned' =
          IF op = "payout" /\ req.external_id # NoKey
             /\ status \in {"EXECUTED", "QUEUED", "DUPLICATE"}
          THEN [returned EXCEPT ![req.external_id] = @ \cup {resp}]
          ELSE returned

Count(external_id, p, o, q, e) ==
    effects' =
       IF external_id = NoKey THEN effects
       ELSE [effects EXCEPT ![external_id] =
                [postings |-> @.postings + p, obligations |-> @.obligations + o,
                 queue_items |-> @.queue_items + q, entries |-> @.entries + e]]

\* A handler that has not received its request.
Idle == [pc |-> "idle", req |-> NoKey, source |-> None, dest |-> None,
         amount_usd_cents |-> 0, entry_id |-> 0, obligation_id |-> 0,
         status |-> "NONE", resp |-> NoKey]

\* A settle_run handler that has not received its request.
IdleRun == [pc |-> "idle", threshold |-> 0, snapshot |-> <<>>, settlements |-> <<>>,
            ids |-> {}, batch_id |-> 0]

Init ==
    /\ accounts \in Provisionings
    /\ journal_entries = <<>>
    /\ postings = <<>>
    /\ obligations = <<>>
    /\ settlement_batches = <<>>
    /\ payout_queue = <<>>
    /\ last = [op |-> "init", req |-> NoKey, status |-> "NONE", resp |-> NoKey]
    /\ opening = [a \in DOMAIN accounts |-> accounts[a].balance_minor]
    /\ returned = [k \in Keys |-> {}]
    /\ effects = [k \in Keys |-> NoEffect]
    /\ procs = [p \in Procs |-> Idle]
    /\ runs = [r \in Runs |-> IdleRun]
    /\ pools = [c \in Countries |-> 0]
    /\ payments = <<>>
    /\ settlements = <<>>
    /\ reply = [op |-> "init", req |-> NoKey, status |-> 0, resp |-> NoKey]
    /\ strict_pools = StrictPools
    /\ strict_obligations = <<>>
    /\ transfers = <<>>
    /\ settle_call = NoCall
    /\ outcome = [op |-> "init", req |-> NoKey, status |-> 0, resp |-> NoKey]

\* ------------------------------------------------------- engine.payout

\* The liquid branch: journal entry, DEBIT posting, balance, obligation, metadata.
PayoutExecute(req, amount_usd_cents) ==
    IF ViolatesUnique(journal_entries, req.external_id)
    THEN \* insert_journal_entry raises; post_payout answers 500
         /\ UNCHANGED <<tables, opening, effects>>
         /\ Finish("payout", req, "InternalError", NoKey)
    ELSE LET journal1 == insert_journal_entry(journal_entries, "PAYOUT", req.external_id, None)
             entry_id == last_insert_rowid(journal1)
             postings1 == insert_posting(postings, entry_id, req.to_pool, "DEBIT", req.amount_minor)
             obligations1 == insert_obligation(obligations, req.from_pool, req.to_pool, amount_usd_cents)
             obligation_id == last_insert_rowid(obligations1)
             metadata == [obligation_id |-> obligation_id,
                          amount_usd_cents |-> amount_usd_cents, queued |-> FALSE]
         IN  /\ journal_entries' = update_journal_entry_metadata(journal1, entry_id, Some(metadata))
             /\ postings' = postings1
             /\ accounts' = update_account_balance(accounts, req.to_pool, -req.amount_minor)
             /\ obligations' = obligations1
             /\ UNCHANGED <<settlement_batches, payout_queue, opening>>
             /\ Count(req.external_id, 1, 1, 0, 1)
             /\ Finish("payout", req, "EXECUTED",
                       PayoutResponse(FALSE, Some(entry_id), Some(obligation_id),
                                      Some(amount_usd_cents), None))

\* The illiquid branch: payout_queue row first, then the journal entry.
PayoutQueue(req, amount_usd_cents) ==
    LET queue1 == insert_payout_queue(payout_queue, req.from_pool, req.to_pool,
                                      req.amount_minor, "QUEUED")
        queue_id == last_insert_rowid(queue1)
        metadata == [payout_queue_id |-> queue_id, queued |-> TRUE]
    IN  /\ payout_queue' = queue1
        /\ UNCHANGED <<accounts, postings, obligations, settlement_batches, opening>>
        /\ IF ViolatesUnique(journal_entries, req.external_id)
           THEN \* insert_journal_entry raises after the queue row is committed
                /\ UNCHANGED journal_entries
                /\ Count(req.external_id, 0, 0, 1, 0)
                /\ Finish("payout", req, "InternalError", NoKey)
           ELSE LET journal1 == insert_journal_entry(journal_entries, "QUEUED_PAYOUT",
                                                     req.external_id, Some(metadata))
                    entry_id == last_insert_rowid(journal1)
                IN  /\ journal_entries' = journal1
                    /\ Count(req.external_id, 0, 0, 1, 1)
                    /\ Finish("payout", req, "QUEUED",
                              PayoutResponse(TRUE, Some(entry_id), None,
                                             Some(amount_usd_cents), Some(queue_id)))

\* Mutant: a journal entry is written before the error is raised.
Reject_after_insert(op, req, status) ==
    /\ journal_entries' = insert_journal_entry(journal_entries, "PAYOUT", NoKey, None)
    /\ UNCHANGED <<accounts, postings, obligations, settlement_batches, payout_queue,
                   opening, effects>>
    /\ Finish(op, req, status, NoKey)

\* raise HTTPException before any statement that writes
Reject(op, req, status) ==
    /\ UNCHANGED <<tables, opening, effects>>
    /\ Finish(op, req, status, NoKey)

Payout(req) ==
    LET source == fetch_account(req.from_pool)
        dest == fetch_account(req.to_pool)
    IN
    /\ IF source = None \/ dest = None
       THEN Reject("payout", req, "AccountNotFound")
       ELSE
       LET src == CHOOSE a \in source : TRUE
           dst == CHOOSE a \in dest : TRUE
           existing == IF Truthy(req.external_id)
                       THEN get_journal_entry_by_external_id(journal_entries, req.external_id)
                       ELSE {}
           rate == fetch_fx_rate(RateCurrency(src, dst))
       IN  IF existing # {}
           THEN /\ UNCHANGED <<tables, opening, effects>>
                /\ Finish("payout", req, "DUPLICATE",
                          ReplayResponse(journal_entries[CHOOSE i \in existing : TRUE]))
           ELSE IF rate = None
           THEN Reject("payout", req, "MissingFxRate")
           ELSE LET amount_usd_cents ==
                        convert_to_usd_cents(req.amount_minor, CHOOSE x \in rate : TRUE)
                IN  IF HasLiquidity(dst.balance_minor, req.amount_minor, dst.min_buffer_minor)
                    THEN PayoutExecute(req, amount_usd_cents)
                    ELSE PayoutQueue(req, amount_usd_cents)
    /\ Len(journal_entries') <= MaxEntries
    /\ Len(payout_queue') <= MaxEntries

\* --------------------------------------------------- engine.admin_topup

Topup(req) ==
    /\ IF fetch_account(req.account_id) = None
       THEN Reject("topup", req, "AccountNotFound")
       ELSE LET journal1 == insert_journal_entry(journal_entries, "TOPUP", NoKey,
                                                 Some([account_id |-> req.account_id]))
                entry_id == last_insert_rowid(journal1)
            IN  /\ journal_entries' = journal1
                /\ postings' = insert_posting(postings, entry_id, req.account_id,
                                              "CREDIT", req.amount_minor)
                /\ accounts' = update_account_balance(accounts, req.account_id, req.amount_minor)
                /\ UNCHANGED <<obligations, settlement_batches, payout_queue, opening, effects>>
                /\ Finish("topup", req, "OK", [journal_entry_id |-> Some(entry_id)])
    /\ Len(journal_entries') <= MaxEntries

\* ---------------------------------------------------- engine.settle_run

\* Account ids in the order Python compares strings.
IdOrder == <<"GHOST", "POOL_UK", "WORKER_B">>

Rank(id) == CHOOSE i \in DOMAIN IdOrder : IdOrder[i] = id

\* tuple(sorted([from_pool, to_pool]))
SortedPair(from_pool, to_pool) ==
    IF Rank(from_pool) <= Rank(to_pool)
    THEN <<from_pool, to_pool>> ELSE <<to_pool, from_pool>>

\* Mutant: every obligation of the pair is added, whatever its direction.
SignedAmount_unsigned(ob, pair) == ob.amount_usd_cents

\* net_positions[pair] += amount when the obligation runs A -> B, -= amount otherwise
SignedAmount(ob, pair) ==
    IF ob.from_pool = pair[1] /\ ob.to_pool = pair[2]
    THEN ob.amount_usd_cents ELSE -ob.amount_usd_cents

\* Mutant: the status filter is missing.
fetch_all_obligations_as_open(table) == table

\* SELECT * FROM obligations WHERE status = 'OPEN' ORDER BY id
fetch_open_obligations(table) ==
    SelectSeq(table, LAMBDA ob : ob.status = "OPEN")

\* The loop of _compute_net_positions, one obligation per iteration: the pairs in
\* the order the dict first sees them, each pair's net and its obligation ids.
RECURSIVE compute_net_positions(_)
compute_net_positions(obs) ==
    IF obs = <<>>
    THEN [pairs |-> <<>>, net |-> <<>>, ids |-> <<>>]
    ELSE LET acc == compute_net_positions(SubSeq(obs, 1, Len(obs) - 1))
             ob == obs[Len(obs)]
             pair == SortedPair(ob.from_pool, ob.to_pool)
             seen == \E i \in DOMAIN acc.pairs : acc.pairs[i] = pair
             k == IF seen THEN CHOOSE i \in DOMAIN acc.pairs : acc.pairs[i] = pair
                  ELSE Len(acc.pairs) + 1
             acc0 == IF seen THEN acc
                     ELSE [pairs |-> Append(acc.pairs, pair),
                           net |-> Append(acc.net, 0),
                           ids |-> Append(acc.ids, {})]
         IN  [pairs |-> acc0.pairs,
              net |-> [acc0.net EXCEPT ![k] = @ + SignedAmount(ob, pair)],
              ids |-> [acc0.ids EXCEPT ![k] = @ \cup {ob.id}]]

Abs(n) == IF n < 0 THEN -n ELSE n

\* Mutant: a net equal to the threshold is settled too.
AboveThreshold_inclusive(net_amount, threshold_usd_cents) ==
    ~ (Abs(net_amount) < threshold_usd_cents)

\* "if abs(net_amount) <= threshold_usd_cents: continue"
AboveThreshold(net_amount, threshold_usd_cents) ==
    ~ (Abs(net_amount) <= threshold_usd_cents)

\* The settlement instruction of one pair: payer, payee, amount.
Instruction(pair, net_amount) ==
    IF net_amount > 0
    THEN [payer |-> pair[1], payee |-> pair[2], amount_usd_cents |-> net_amount]
    ELSE [payer |-> pair[2], payee |-> pair[1], amount_usd_cents |-> -net_amount]

\* The loop over net_positions.items(): the instructions of the qualifying pairs,
\* in dict order, and all_obligation_ids_to_settle.
RECURSIVE Settlements(_, _, _)
Settlements(np, threshold, n) ==
    IF n = 0 THEN [settlements |-> <<>>, ids |-> {}]
    ELSE LET acc == Settlements(np, threshold, n - 1)
         IN  IF AboveThreshold(np.net[n], threshold)
             THEN [settlements |-> Append(acc.settlements, Instruction(np.pairs[n], np.net[n])),
                   ids |-> acc.ids \cup np.ids[n]]
             ELSE acc

SettleResponse(batch_id, instructions) ==
    [settlement_batch_id |-> batch_id, settlement_count |-> Len(instructions),
     settlements |-> instructions]

SettleRun(threshold) ==
    LET open == fetch_open_obligations(obligations)
        np == compute_net_positions(open)
        out == Settlements(np, threshold, Len(np.pairs))
    IN  IF open = <<>> \/ out.settlements = <<>>
        THEN /\ UNCHANGED <<tables, opening, effects>>
             /\ Finish("settle", threshold, "OK", SettleResponse(None, <<>>))
        ELSE LET batches1 == insert_settlement_batch(settlement_batches, threshold)
                 batch_id == last_insert_rowid(batches1)
             IN  /\ settlement_batches' = batches1
                 /\ obligations' = update_obligations_settled(obligations, out.ids, batch_id)
                 /\ UNCHANGED <<accounts, journal_entries, postings, payout_queue,
                                opening, effects>>
                 /\ Finish("settle", threshold, "OK",
                           SettleResponse(Some(batch_id), out.settlements))

\* ------------------------------------------------------------ specification

\* Requests handled one after the other, each to completion.
Next ==
    \/ \E req \in PayoutRequests : Payout(req) /\ UNCHANGED <<procs, runs, backend, strict>>
    \/ \E req \in TopupRequests : Topup(req) /\ UNCHANGED <<procs, runs, backend, strict>>
    \/ \E threshold \in Thresholds : SettleRun(threshold) /\ UNCHANGED <<procs, runs, backend, strict>>

Spec == Init /\ [][Next]_vars

\* ------------------------------------------- engine.payout, statement by statement

\* Each db.py call of payout is a transaction of its own (execute_query commits
\* per statement), so two handlers interleave between any two of them.

\* A payout handler moves on; the other handlers' locals are not its own.
Goto(p, rec) ==
    /\ procs' = [procs EXCEPT ![p] = rec]
    /\ UNCHANGED <<runs, backend, strict>>

\* The handler ends: its outcome is recorded with the responses of its key.
Done(p, status, resp) ==
    /\ Goto(p, [procs[p] EXCEPT !.pc = "done", !.status = status, !.resp = resp])
    /\ returned' =
          IF procs[p].req.external_id # NoKey
             /\ status \in {"EXECUTED", "QUEUED", "DUPLICATE"}
          THEN [returned EXCEPT ![procs[p].req.external_id] = @ \cup {resp}]
          ELSE returned

\* post_payout receives a request.
Receive(p, req) ==
    /\ procs[p].pc = "idle"
    /\ Goto(p, [procs[p] EXCEPT !.pc = "fetch_source", !.req = req])
    /\ UNCHANGED <<tables, last, opening, returned, effects>>

\* source = fetch_account(from_pool)
FetchSource(p) ==
    /\ procs[p].pc = "fetch_source"
    /\ Goto(p, [procs[p] EXCEPT !.pc = "fetch_dest",
                                !.source = fetch_account(procs[p].req.from_pool)])
    /\ UNCHANGED <<tables, last, opening, returned, effects>>

\* dest = fetch_account(to_pool); 404 when either account is missing
FetchDest(p) ==
    /\ procs[p].pc = "fetch_dest"
    /\ LET dest == fetch_account(procs[p].req.to_pool)
       IN  IF procs[p].source = None \/ dest = None
           THEN Done(p, "AccountNotFound", NoKey)
           ELSE /\ Goto(p, [procs[p] EXCEPT !.pc = "lookup", !.dest = dest])
                /\ UNCHANGED returned
    /\ UNCHANGED <<tables, last, opening, effects>>

\* existing = get_journal_entry_by_external_id(external_id), when the key is truthy
Lookup(p) ==
    /\ procs[p].pc = "lookup"
    /\ LET k == procs[p].req.external_id
           existing == IF Truthy(k)
                       THEN get_journal_entry_by_external_id(journal_entries, k)
                       ELSE {}
       IN  IF existing # {}
           THEN Done(p, "DUPLICATE",
                     ReplayResponse(journal_entries[CHOOSE i \in existing : TRUE]))
           ELSE /\ Goto(p, [procs[p] EXCEPT !.pc = "convert"])
                /\ UNCHANGED returned
    /\ UNCHANGED <<tables, last, opening, effects>>

\* convert_to_usd_cents, then the liquidity check on the dest row read earlier
Convert(p) ==
    /\ procs[p].pc = "convert"
    /\ LET src == CHOOSE a \in procs[p].source : TRUE
           dst == CHOOSE a \in procs[p].dest : TRUE
           rate == fetch_fx_rate(RateCurrency(src, dst))
       IN  IF rate = None
           THEN Done(p, "MissingFxRate", NoKey)
           ELSE /\ Goto(p, [procs[p] EXCEPT
                       !.amount_usd_cents =
                           convert_to_usd_cents(procs[p].req.amount_minor,
                                                CHOOSE x \in rate : TRUE),
                       !.pc = IF HasLiquidity(dst.balance_minor, procs[p].req.amount_minor,
                                              dst.min_buffer_minor)
                              THEN "insert_entry" ELSE "insert_queue"])
                /\ UNCHANGED returned
    /\ UNCHANGED <<tables, last, opening, effects>>

\* entry_id = insert_journal_entry(now, "PAYOUT", external_id, None)
InsertEntry(p) ==
    /\ procs[p].pc = "insert_entry"
    /\ IF ViolatesUnique(journal_entries, procs[p].req.external_id)
       THEN /\ Done(p, "InternalError", NoKey)
            /\ UNCHANGED <<journal_entries, effects>>
       ELSE LET journal1 == insert_journal_entry(journal_entries, "PAYOUT",
                                                 procs[p].req.external_id, None)
            IN  /\ journal_entries' = journal1
                /\ Goto(p, [procs[p] EXCEPT !.pc = "insert_posting",
                                            !.entry_id = last_insert_rowid(journal1)])
                /\ Count(procs[p].req.external_id, 0, 0, 0, 1)
                /\ UNCHANGED returned
    /\ UNCHANGED <<accounts, postings, obligations, settlement_batches, payout_queue,
                   last, opening>>

\* insert_posting(entry_id, to_pool, "DEBIT", amount_minor)
InsertPosting(p) ==
    /\ procs[p].pc = "insert_posting"
    /\ postings' = insert_posting(postings, procs[p].entry_id, procs[p].req.to_pool,
                                  "DEBIT", procs[p].req.amount_minor)
    /\ Goto(p, [procs[p] EXCEPT !.pc = "update_balance"])
    /\ Count(procs[p].req.external_id, 1, 0, 0, 0)
    /\ UNCHANGED <<accounts, journal_entries, obligations, settlement_batches,
                   payout_queue, last, opening, returned>>

\* update_account_balance(to_pool, -amount_minor)
UpdateBalance(p) ==
    /\ procs[p].pc = "update_balance"
    /\ accounts' = update_account_balance(accounts, procs[p].req.to_pool,
                                          -procs[p].req.amount_minor)
    /\ Goto(p, [procs[p] EXCEPT !.pc = "insert_obligation"])
    /\ UNCHANGED <<journal_entries, postings, obligations, settlement_batches,
                   payout_queue, last, opening, returned, effects>>

\* obligation_id = insert_obligation(from_pool, to_pool, amount_usd_cents, now)
InsertObligation(p) ==
    /\ procs[p].pc = "insert_obligation"
    /\ LET obligations1 == insert_obligation(obligations, procs[p].req.from_pool,
                                             procs[p].req.to_pool,
                                             procs[p].amount_usd_cents)
       IN  /\ obligations' = obligations1
           /\ Goto(p, [procs[p] EXCEPT !.pc = "update_metadata",
                                       !.obligation_id = last_insert_rowid(obligations1)])
    /\ Count(procs[p].req.external_id, 0, 1, 0, 0)
    /\ UNCHANGED <<accounts, journal_entries, postings, settlement_batches,
                   payout_queue, last, opening, returned>>

\* update_journal_entry_metadata(entry_id, metadata); return "Payout executed"
UpdateMetadata(p) ==
    /\ procs[p].pc = "update_metadata"
    /\ journal_entries' =
          update_journal_entry_metadata(journal_entries, procs[p].entry_id,
              Some([obligation_id |-> procs[p].obligation_id,
                    amount_usd_cents |-> procs[p].amount_usd_cents,
                    queued |-> FALSE]))
    /\ Done(p, "EXECUTED",
            PayoutResponse(FALSE, Some(procs[p].entry_id), Some(procs[p].obligation_id),
                           Some(procs[p].amount_usd_cents), None))
    /\ UNCHANGED <<accounts, postings, obligations, settlement_batches, payout_queue,
                   last, opening, effects>>

\* queue_id = insert_payout_queue(now, from_pool, to_pool, amount_minor, "QUEUED")
InsertQueue(p) ==
    /\ procs[p].pc = "insert_queue"
    /\ LET queue1 == insert_payout_queue(payout_queue, procs[p].req.from_pool,
                                         procs[p].req.to_pool,
                                         procs[p].req.amount_minor, "QUEUED")
       IN  /\ payout_queue' = queue1
           /\ Goto(p, [procs[p] EXCEPT !.pc = "insert_queued_entry",
                                       !.entry_id = last_insert_rowid(queue1)])
    /\ Count(procs[p].req.external_id, 0, 0, 1, 0)
    /\ UNCHANGED <<accounts, journal_entries, postings, obligations,
                   settlement_batches, last, opening, returned>>

\* entry_id = insert_journal_entry(now, "QUEUED_PAYOUT", external_id, metadata);
\* return "Insufficient liquidity; payout queued"  (entry_id holds queue_id so far)
InsertQueuedEntry(p) ==
    /\ procs[p].pc = "insert_queued_entry"
    /\ IF ViolatesUnique(journal_entries, procs[p].req.external_id)
       THEN /\ Done(p, "InternalError", NoKey)
            /\ UNCHANGED <<journal_entries, effects>>
       ELSE LET queue_id == procs[p].entry_id
                journal1 == insert_journal_entry(journal_entries, "QUEUED_PAYOUT",
                                procs[p].req.external_id,
                                Some([payout_queue_id |-> queue_id, queued |-> TRUE]))
            IN  /\ journal_entries' = journal1
                /\ Count(procs[p].req.external_id, 0, 0, 0, 1)
                /\ Done(p, "QUEUED",
                        PayoutResponse(TRUE, Some(last_insert_rowid(journal1)), None,
                                       Some(procs[p].amount_usd_cents), Some(queue_id)))
    /\ UNCHANGED <<accounts, postings, obligations, settlement_batches, payout_queue,
                   last, opening>>

\* The process serving a request dies between two statements: what the earlier
\* statements committed stays in the database.
Crash(p) ==
    /\ procs[p].pc \notin {"idle", "done", "crashed"}
    /\ Goto(p, [procs[p] EXCEPT !.pc = "crashed"])
    /\ UNCHANGED <<tables, last, opening, returned, effects>>

\* ---------------------------------------- engine.settle_run, statement by statement

\* A settle_run handler moves on; the payout handlers' locals are not its own.
GotoRun(r, rec) ==
    /\ runs' = [runs EXCEPT ![r] = rec]
    /\ UNCHANGED <<procs, backend, strict>>

\* post_settle_run receives a request.
ReceiveSettle(r, threshold) ==
    /\ runs[r].pc = "idle"
    /\ GotoRun(r, [runs[r] EXCEPT !.pc = "fetch_open", !.threshold = threshold])
    /\ UNCHANGED <<tables, last, opening, returned, effects>>

\* obligations = fetch_open_obligations(); the nets and the instructions are then
\* computed in memory from that snapshot; return when nothing qualifies.
FetchOpen(r) ==
    /\ runs[r].pc = "fetch_open"
    /\ LET open == fetch_open_obligations(obligations)
           np == compute_net_positions(open)
           out == Settlements(np, runs[r].threshold, Len(np.pairs))
       IN  GotoRun(r, [runs[r] EXCEPT
               !.snapshot = open,
               !.settlements = out.settlements,
               !.ids = out.ids,
               !.pc = IF open = <<>> \/ out.settlements = <<>>
                      THEN "done" ELSE "insert_batch"])
    /\ UNCHANGED <<tables, last, opening, returned, effects>>

\* batch_id = insert_settlement_batch(now, "threshold=...")
InsertBatch(r) ==
    /\ runs[r].pc = "insert_batch"
    /\ LET batches1 == insert_settlement_batch(settlement_batches, runs[r].threshold)
       IN  /\ settlement_batches' = batches1
           /\ GotoRun(r, [runs[r] EXCEPT !.pc = "update_obligations",
                                         !.batch_id = last_insert_rowid(batches1)])
    /\ UNCHANGED <<accounts, journal_entries, postings, obligations, payout_queue,
                   last, opening, returned, effects>>

\* update_obligations_settled(all_obligation_ids_to_settle, batch_id); return
UpdateObligations(r) ==
    /\ runs[r].pc = "update_obligations"
    /\ obligations' = update_obligations_settled(obligations, runs[r].ids, runs[r].batch_id)
    /\ GotoRun(r, [runs[r] EXCEPT !.pc = "done"])
    /\ UNCHANGED <<accounts, journal_entries, postings, settlement_batches, payout_queue,
                   last, opening, returned, effects>>

\* Two payout handlers and two settle_run handlers, one request each, interleaved
\* statement by statement.
NextRace ==
    \/ \E p \in Procs : \E req \in RaceRequests : Receive(p, req)
    \/ \E p \in Procs : FetchSource(p)
    \/ \E p \in Procs : FetchDest(p)
    \/ \E p \in Procs : Lookup(p)
    \/ \E p \in Procs : Convert(p)
    \/ \E p \in Procs : InsertEntry(p)
    \/ \E p \in Procs : InsertPosting(p)
    \/ \E p \in Procs : UpdateBalance(p)
    \/ \E p \in Procs : InsertObligation(p)
    \/ \E p \in Procs : UpdateMetadata(p)
    \/ \E p \in Procs : InsertQueue(p)
    \/ \E p \in Procs : InsertQueuedEntry(p)
    \/ \E p \in Procs : Crash(p)
    \/ \E r \in Runs : \E threshold \in Thresholds : ReceiveSettle(r, threshold)
    \/ \E r \in Runs : FetchOpen(r)
    \/ \E r \in Runs : InsertBatch(r)
    \/ \E r \in Runs : UpdateObligations(r)

SpecRace == Init /\ [][NextRace]_vars

\* ---------------------------------- backend application: payments, pools, settlements

\* Every handler below runs inside "with get_db() as conn": its statements are
\* committed together when it returns and dropped when it raises.

\* POST /payments requests: the body (PaymentCreate: country COUNTRY_A or
\* COUNTRY_B, amount > 0) and the Idempotency-Key header (absent, empty or a key).
PaymentCreate(country, amount_minor) ==
    [country |-> country, amount_minor |-> amount_minor]

PaymentRequests ==
    { <<PaymentCreate("COUNTRY_A", 1000), "idem-1">>,
      <<PaymentCreate("COUNTRY_B", 400), "idem-2">>,
      <<PaymentCreate("COUNTRY_A", 1000), NoKey>>,
      <<PaymentCreate("COUNTRY_A", 1000), "">> }

\* Stripe event types the webhook receives.
EventTypes == {"payment_intent.succeeded", "payment_intent.payment_failed"}

Answer(op, req, status, resp) ==
    reply' = [op |-> op, req |-> req, status |-> status, resp |-> resp]

\* Mutant: the lookup by idempotency key finds nothing.
ExistingPayment_never(table, idempotency_key) == {}

\* SELECT id, status, stripe_payment_intent_id FROM payments WHERE idempotency_key = ?
ExistingPayment(table, idempotency_key) ==
    {i \in DOMAIN table : table[i].idempotency_key = idempotency_key}

PaymentResponse(row) ==
    [id |-> row.id, status |-> row.status,
     stripe_payment_intent_id |-> row.stripe_payment_intent_id]

\* create_payment_intent: a fresh intent id (uuid4), status requires_confirmation.
create_payment_intent(table) ==
    [id |-> Len(table) + 1, status |-> "requires_confirmation"]

\* POST /payments
create_payment(payload, idempotency_key) ==
    /\ IF ~ Truthy(idempotency_key)
       THEN /\ Answer("payment", idempotency_key, 400, NoKey)
            /\ UNCHANGED <<pools, payments, settlements>>
       ELSE LET existing == ExistingPayment(payments, idempotency_key)
            IN  IF existing # {}
                THEN /\ Answer("payment", idempotency_key, 200,
                               PaymentResponse(payments[CHOOSE i \in existing : TRUE]))
                     /\ UNCHANGED <<pools, payments, settlements>>
                ELSE IF \E i \in DOMAIN payments :
                           payments[i].idempotency_key = idempotency_key
                THEN \* idempotency_key TEXT UNIQUE: the INSERT raises, nothing commits
                     /\ Answer("payment", idempotency_key, 500, NoKey)
                     /\ UNCHANGED <<pools, payments, settlements>>
                ELSE LET intent == create_payment_intent(payments)
                         row == [id |-> Len(payments) + 1,
                                 country |-> payload.country,
                                 amount_minor |-> payload.amount_minor,
                                 idempotency_key |-> idempotency_key,
                                 stripe_payment_intent_id |-> intent.id,
                                 status |-> intent.status]
                     IN  /\ payments' = Append(payments, row)
                         /\ Answer("payment", idempotency_key, 200, PaymentResponse(row))
                         /\ UNCHANGED <<pools, settlements>>
    /\ Len(payments') + Len(settlements) <= MaxEntries + 1
    /\ UNCHANGED <<ledger, strict>>

\* Rows of the payments table with the given payment intent.
PaymentsOfIntent(intent_id) ==
    {i \in DOMAIN payments : payments[i].stripe_payment_intent_id = intent_id}

\* Mutant: the credit does not depend on the payment's status.
mark_payment_succeeded_always_credits(intent_id) ==
    LET found == PaymentsOfIntent(intent_id)
    IN  IF found = {}
        THEN UNCHANGED <<pools, payments>>
        ELSE LET i == CHOOSE j \in found : TRUE
             IN  /\ payments' = [payments EXCEPT ![i].status = "succeeded"]
                 /\ pools' = [pools EXCEPT ![payments[i].country] =
                                 @ + payments[i].amount_minor]

\* _mark_payment_succeeded: the first row of the intent is marked succeeded and
\* its amount credited to its country's pool, unless it is succeeded already.
mark_payment_succeeded(intent_id) ==
    LET found == PaymentsOfIntent(intent_id)
    IN  IF found = {}
        THEN UNCHANGED <<pools, payments>>
        ELSE LET i == CHOOSE j \in found : TRUE
             IN  IF payments[i].status # "succeeded"
                 THEN /\ payments' = [payments EXCEPT ![i].status = "succeeded"]
                      /\ pools' = [pools EXCEPT ![payments[i].country] =
                                      @ + payments[i].amount_minor]
                 ELSE UNCHANGED <<pools, payments>>

\* UPDATE payments SET status = ? WHERE stripe_payment_intent_id = ?
set_payment_status(intent_id, status) ==
    payments' = [i \in DOMAIN payments |->
                    IF i \in PaymentsOfIntent(intent_id)
                    THEN [payments[i] EXCEPT !.status = status]
                    ELSE payments[i]]

\* POST /stripe/webhook with an intent id
stripe_webhook(event_type, intent_id) ==
    /\ IF event_type = "payment_intent.succeeded"
       THEN /\ mark_payment_succeeded(intent_id)
            /\ Answer("webhook", <<event_type, intent_id>>, 200,
                      [handled |-> PaymentsOfIntent(intent_id) # {}])
       ELSE /\ set_payment_status(intent_id, "failed")
            /\ Answer("webhook", <<event_type, intent_id>>, 200, [handled |-> TRUE])
            /\ UNCHANGED pools
    /\ \A c \in Countries : pools'[c] <= MaxBalance
    /\ UNCHANGED <<settlements, ledger, strict>>

\* Statuses an operator reports through /stripe/reconcile.
ReconcileStatuses == {"succeeded", "failed"}

\* POST /stripe/reconcile
stripe_reconcile(status, intent_id) ==
    /\ IF status = "succeeded"
       THEN /\ mark_payment_succeeded(intent_id)
            /\ Answer("reconcile", <<status, intent_id>>, 200,
                      [updated |-> PaymentsOfIntent(intent_id) # {}])
       ELSE /\ set_payment_status(intent_id, status)
            /\ Answer("reconcile", <<status, intent_id>>, 200, [updated |-> TRUE])
            /\ UNCHANGED pools
    /\ \A c \in Countries : pools'[c] <= MaxBalance
    /\ UNCHANGED <<settlements, ledger, strict>>

\* int(x / d) for d > 0: truncation towards zero
TruncDiv(x, d) == IF x >= 0 THEN x \div d ELSE -((-x) \div d)

RECURSIVE SumSeq(_)
SumSeq(values) ==
    IF values = <<>> THEN 0 ELSE values[1] + SumSeq(Tail(values))

WINDOW == 3

\* _moving_average: int(mean(values[-window:])), 0 when there is no history
moving_average(values) ==
    IF values = <<>> THEN 0
    ELSE LET n == IF Len(values) < WINDOW THEN Len(values) ELSE WINDOW
             recent == SubSeq(values, Len(values) - n + 1, Len(values))
         IN  TruncDiv(SumSeq(recent), n)

\* _load_amount_history: amounts of the country's succeeded payments, oldest first
Inflows(country) ==
    LET rows == SelectSeq(payments,
                    LAMBDA r : r.country = country /\ r.status = "succeeded")
    IN  [i \in DOMAIN rows |-> rows[i].amount_minor]

\* _load_amount_history: executed_minor of the settlements the country paid
Outflows(country) ==
    LET rows == SelectSeq(settlements,
                    LAMBDA r : r.from_country = country /\ r.status = "executed")
    IN  [i \in DOMAIN rows |-> CHOOSE x \in rows[i].executed_minor : TRUE]

\* get_forecast(...)["net_minor"] (fewer than MIN_CATBOOST_POINTS rows of history)
ForecastNet(country) ==
    moving_average(Inflows(country)) - moving_average(Outflows(country))

Max(a, b) == IF a >= b THEN a ELSE b
Min(a, b) == IF a <= b THEN a ELSE b

\* POST /settlements/run: propose a transfer from the richer to the poorer pool
run_settlement ==
    LET a == "COUNTRY_A"
        b == "COUNTRY_B"
        balance_a == pools[a]
        balance_b == pools[b]
        base_transfer == Abs(balance_a - balance_b) \div 2
        richer == IF balance_a >= balance_b THEN a ELSE b
        poorer == IF balance_a >= balance_b THEN b ELSE a
        richer_balance == Max(balance_a, balance_b)
        forecast_adjustment == TruncDiv(ForecastNet(richer) - ForecastNet(poorer), 5)
        raw_recommended == Max(0, base_transfer + forecast_adjustment)
        cap_minor == TruncDiv(richer_balance * 2, 5)
        recommended == Min(raw_recommended, cap_minor)
        row == [id |-> Len(settlements) + 1, from_country |-> richer,
                to_country |-> poorer, base_transfer_minor |-> base_transfer,
                forecast_adjustment_minor |-> forecast_adjustment,
                recommended_minor |-> recommended, executed_minor |-> None,
                status |-> "proposed"]
    IN  /\ settlements' = Append(settlements, row)
        /\ Answer("run", NoKey, 200, row)
        /\ UNCHANGED <<pools, payments, ledger, strict>>

\* Mutant: the "already executed" guard is missing.
ExecutionError_no_status_guard(row) ==
    IF row.recommended_minor <= 0 THEN "Settlement recommended amount is zero"
    ELSE NoKey

\* The guards of execute_settlement: the ValueError raised, if any.
ExecutionError(row) ==
    IF row.status = "executed" THEN "Settlement already executed"
    ELSE IF row.recommended_minor <= 0 THEN "Settlement recommended amount is zero"
    ELSE NoKey

\* POST /settlements/{settlement_id}/execute
execute_settlement(settlement_id) ==
    /\ IF settlement_id \notin DOMAIN settlements
       THEN /\ Answer("execute", settlement_id, 400, "Settlement not found")
            /\ UNCHANGED <<pools, settlements>>
       ELSE LET row == settlements[settlement_id]
                recommended_minor == row.recommended_minor
            IN  IF ExecutionError(row) # NoKey
                THEN /\ Answer("execute", settlement_id, 400, ExecutionError(row))
                     /\ UNCHANGED <<pools, settlements>>
                ELSE /\ pools' = [c \in Countries |->
                                    pools[c]
                                    - (IF c = row.from_country THEN recommended_minor ELSE 0)
                                    + (IF c = row.to_country THEN recommended_minor ELSE 0)]
                     /\ settlements' = [settlements EXCEPT ![settlement_id] =
                            [row EXCEPT !.executed_minor = Some(recommended_minor),
                                        !.status = "executed"]]
                     /\ Answer("execute", settlement_id, 200, settlements'[settlement_id])
    /\ UNCHANGED <<payments, ledger, strict>>

\* Backend requests handled one after the other, each to completion.
NextBackend ==
    \/ \E req \in PaymentRequests : create_payment(req[1], req[2])
    \/ \E t \in EventTypes : \E intent_id \in 1..(Len(payments) + 1) : stripe_webhook(t, intent_id)
    \/ \E status \in ReconcileStatuses : \E intent_id \in 1..(Len(payments) + 1) :
           stripe_reconcile(status, intent_id)
    \/ run_settlement /\ Len(payments) + Len(settlements) <= MaxEntries
    \/ \E settlement_id \in 1..(Len(settlements) + 1) : execute_settlement(settlement_id)

\* The backend starts from the seeded database; the ledger is a separate
\* application and stays as provisioned.
InitBackend ==
    /\ Init
    /\ accounts["POOL_UK"].min_buffer_minor = 1000
    /\ accounts["WORKER_B"].currency = "EUR"

SpecBackend == InitBackend /\ [][NextBackend]_vars

\* One payment is taken and confirmed, and the operator proposes and executes
\* rebalancing settlements in any order.
NextRebalance ==
    \/ create_payment(PaymentCreate("COUNTRY_A", 1000), "idem-1")
    \/ \E intent_id \in 1..Len(payments) :
           stripe_webhook("payment_intent.succeeded", intent_id)
    \/ run_settlement /\ Len(settlements) < MaxProposals
    \/ \E settlement_id \in 1..Len(settlements) : execute_settlement(settlement_id)

SpecRebalance == InitBackend /\ [][NextRebalance]_vars

\* ------------------------------------------ strict ledger: ledger.py over db.py

\* SELECT * FROM pools WHERE id=?  (None when there is no such row)
fetch_pool(pool_id) ==
    IF pool_id \in DOMAIN strict_pools THEN Some(strict_pools[pool_id]) ELSE None

\* UPDATE pools SET balance=balance+? WHERE id=?
update_pool_balance(table, pool_id, amount_delta) ==
    [q \in DOMAIN table |->
        IF q = pool_id THEN [table[q] EXCEPT !.balance = @ + amount_delta]
        ELSE table[q]]

\* LIMIT of the SELECT in fetch_open_obligations
OPEN_LIMIT == 100

\* SELECT * FROM obligations WHERE status='OPEN' ORDER BY id DESC LIMIT 100:
\* the ids of the OPEN_LIMIT newest OPEN rows
strict_fetch_open_obligations(table) ==
    LET open == {i \in DOMAIN table : table[i].status = "OPEN"}
    IN  {i \in open : Cardinality({j \in open : j > i}) < OPEN_LIMIT}

\* INSERT INTO obligations(from_pool,to_pool,amount_usd_cents,status,created_at)
strict_insert_obligation(table, from_pool, to_pool, amount_usd_cents) ==
    Append(table, [id |-> Len(table) + 1, from_pool |-> from_pool,
                   to_pool |-> to_pool, amount_usd_cents |-> amount_usd_cents,
                   status |-> "OPEN"])

\* INSERT INTO transfers(from_pool,to_pool,amount_minor,amount_usd_cents,route,created_at)
insert_transfer(table, from_pool, to_pool, amount_minor, amount_usd_cents, route) ==
    Append(table, [id |-> Len(table) + 1, from_pool |-> from_pool,
                   to_pool |-> to_pool, amount_minor |-> amount_minor,
                   amount_usd_cents |-> amount_usd_cents, route |-> route])

\* UPDATE obligations SET status=? WHERE status='OPEN'
update_obligations_status(table, status) ==
    [i \in DOMAIN table |->
        IF table[i].status = "OPEN" THEN [table[i] EXCEPT !.status = status]
        ELSE table[i]]

StrictResult(op, req, status, resp) ==
    outcome' = [op |-> op, req |-> req, status |-> status, resp |-> resp]

\* Mutant: the destination's liquidity is not checked.
InsufficientLiquidity_never(dest_pool, amount_minor) == FALSE

\* dest_pool["balance"] < amount_minor
InsufficientLiquidity(dest_pool, amount_minor) == dest_pool.balance < amount_minor

\* The HTTPException execute_transfer raises before it writes, if any.
TransferError(req) ==
    LET source_pool == fetch_pool(req.from_pool_id)
        dest_pool == fetch_pool(req.to_pool_id)
    IN  IF source_pool = None THEN "Source pool not found"
        ELSE IF dest_pool = None THEN "Destination pool not found"
        ELSE IF InsufficientLiquidity(strict_pools[req.to_pool_id], req.amount_minor)
        THEN "Insufficient liquidity"
        ELSE IF fetch_fx_rate(strict_pools[req.from_pool_id].currency) = None
        THEN "Missing FX rate"
        ELSE NoKey

\* ledger.execute_transfer
execute_transfer(req) ==
    /\ IF TransferError(req) # NoKey
       THEN /\ StrictResult("transfer", req,
                            IF TransferError(req) \in {"Source pool not found",
                                                       "Destination pool not found"}
                            THEN 404 ELSE 400,
                            TransferError(req))
            /\ UNCHANGED <<strict_pools, strict_obligations, transfers>>
       ELSE LET amount_usd_cents ==
                    convert_to_usd_cents(req.amount_minor,
                                         FxRates[strict_pools[req.from_pool_id].currency])
            IN  /\ strict_pools' = update_pool_balance(strict_pools, req.to_pool_id,
                                                       -req.amount_minor)
                /\ strict_obligations' =
                       strict_insert_obligation(strict_obligations, req.from_pool_id,
                                                req.to_pool_id, amount_usd_cents)
                /\ transfers' = insert_transfer(transfers, req.from_pool_id,
                                                req.to_pool_id, req.amount_minor,
                                                amount_usd_cents, "SYNTHETIC")
                /\ StrictResult("transfer", req, 200,
                                [amount_usd_cents |-> amount_usd_cents,
                                 route |-> "SYNTHETIC"])
    /\ Len(transfers') <= MaxEntries
    /\ UNCHANGED <<settle_call, ledger, backend>>

\* ledger.topup_pool
topup_pool(req) ==
    /\ IF fetch_pool(req.pool_id) = None
       THEN /\ StrictResult("topup", req, 404, "Pool not found")
            /\ UNCHANGED strict_pools
       ELSE /\ strict_pools' = update_pool_balance(strict_pools, req.pool_id,
                                                   req.amount_minor)
            /\ StrictResult("topup", req, 200, NoKey)
    /\ \A q \in DOMAIN strict_pools : strict_pools'[q].balance <= MaxBalance
    /\ UNCHANGED <<strict_obligations, transfers, settle_call, ledger, backend>>

\* tuple(sorted([from_pool, to_pool])): the pool ids in string order
PoolsInOrder == <<"EU_EUR", "JP_JPY", "UK_GBP">>

RECURSIVE NetOver(_, _, _)
\* net_positions[(A, B)] over the fetched obligations: + for A -> B, - otherwise
NetOver(ids, A, B) ==
    IF ids = {} THEN 0
    ELSE LET i == CHOOSE x \in ids : TRUE
             ob == strict_obligations[i]
         IN  NetOver(ids \ {i}, A, B)
             + (IF ob.from_pool = A /\ ob.to_pool = B THEN ob.amount_usd_cents
                ELSE IF ob.from_pool = B /\ ob.to_pool = A THEN -ob.amount_usd_cents
                ELSE 0)

\* The settlement list of settle_obligations: one instruction per pair whose
\* net is not zero, payer first.
StrictSettlements(ids) ==
    { [payer |-> IF NetOver(ids, PoolsInOrder[a], PoolsInOrder[b]) > 0
                 THEN PoolsInOrder[a] ELSE PoolsInOrder[b],
       payee |-> IF NetOver(ids, PoolsInOrder[a], PoolsInOrder[b]) > 0
                 THEN PoolsInOrder[b] ELSE PoolsInOrder[a],
       amount_usd_cents |-> Abs(NetOver(ids, PoolsInOrder[a], PoolsInOrder[b]))] :
      <<a, b>> \in { pr \in (1..3) \X (1..3) :
                       /\ pr[1] <= pr[2]
                       /\ NetOver(ids, PoolsInOrder[pr[1]], PoolsInOrder[pr[2]]) # 0 } }

\* settle_obligations, its read: fetch_open_obligations and the net computation
FetchObligations ==
    /\ settle_call.pc = "idle"
    /\ LET ids == strict_fetch_open_obligations(strict_obligations)
       IN  settle_call' = [pc |-> "fetched", fetched |-> ids,
                           settlements |-> StrictSettlements(ids)]
    /\ UNCHANGED <<strict_pools, strict_obligations, transfers, outcome, ledger, backend>>

\* settle_obligations, its write: update_obligations_status and the return
MarkSettled ==
    /\ settle_call.pc = "fetched"
    /\ strict_obligations' = update_obligations_status(strict_obligations, "SETTLED")
    /\ StrictResult("settle", settle_call.fetched, 200, settle_call.settlements)
    /\ settle_call' = NoCall
    /\ UNCHANGED <<strict_pools, transfers, ledger, backend>>

\* Transfers and top-ups are handled one after the other; a settle_obligations
\* call runs beside them, its read and its write being separate statements.
NextStrict ==
    \/ \E req \in TransferRequests : execute_transfer(req)
    \/ \E req \in StrictTopupRequests : topup_pool(req)
    \/ FetchObligations
    \/ MarkSettled

InitStrict ==
    /\ Init
    /\ accounts["POOL_UK"].min_buffer_minor = 1000
    /\ accounts["WORKER_B"].currency = "EUR"

SpecStrict == InitStrict /\ [][NextStrict]_vars

\* ================================================================== claims

RECURSIVE PostingSum(_, _, _)
\* Sum of amount_minor over the first n postings of an account in a direction.
PostingSum(account_id, direction, n) ==
    IF n = 0 THEN 0
    ELSE PostingSum(account_id, direction, n - 1)
         + (IF postings[n].account_id = account_id /\ postings[n].direction = direction
            THEN postings[n].amount_minor ELSE 0)

Credits(account_id) == PostingSum(account_id, "CREDIT", Len(postings))
Debits(account_id) == PostingSum(account_id, "DEBIT", Len(postings))

\* C1 (as stated): every account's balance_minor equals the sum of its CREDIT
\* postings minus the sum of its DEBIT postings.
C1_Conservation ==
    \A a \in DOMAIN accounts :
        accounts[a].balance_minor = Credits(a) - Debits(a)

\* C1 (amended): every account's balance_minor equals the balance it was
\* provisioned with plus the sum of its CREDIT postings minus the sum of its
\* DEBIT postings.
C1_ConservationFromOpening ==
    \A a \in DOMAIN accounts :
        accounts[a].balance_minor = opening[a] + Credits(a) - Debits(a)

\* An account that has been both credited by a topup and debited by a payout.
C1_Witness ==
    \E a \in DOMAIN accounts : Credits(a) > 0 /\ Debits(a) > 0

\* C2: right after a payout whose result is EXECUTED, the account that paid out
\* locally (to_pool) holds at least its min_buffer_minor.
C2_BufferInvariant ==
    (last.op = "payout" /\ last.status = "EXECUTED") =>
        accounts[last.req.to_pool].balance_minor
            >= accounts[last.req.to_pool].min_buffer_minor

\* An executed payout that takes POOL_UK from 5000 to 2000 with a buffer of 1000.
C2_Witness ==
    /\ last.op = "payout" /\ last.status = "EXECUTED"
    /\ last.req.to_pool = "POOL_UK" /\ last.req.amount_minor = 3000
    /\ accounts["POOL_UK"].balance_minor = 2000
    /\ accounts["POOL_UK"].min_buffer_minor = 1000

EntriesWithKey(k) == { i \in DOMAIN journal_entries : journal_entries[i].external_id = k }

\* C3: the payout calls bearing one non-null external_id leave exactly one
\* journal entry for that key, and together create exactly one posting and one
\* obligation, or exactly one payout queue item, however many calls were made.
C3_IdempotentEffects ==
    \A k \in Keys :
        /\ Cardinality(EntriesWithKey(k)) <= 1
        /\ returned[k] # {} =>
              /\ Cardinality(EntriesWithKey(k)) = 1
              /\ \/ effects[k] = [postings |-> 1, obligations |-> 1,
                                  queue_items |-> 0, entries |-> 1]
                 \/ effects[k] = [postings |-> 0, obligations |-> 0,
                                  queue_items |-> 1, entries |-> 1]

\* C4: all the responses returned for one external_id (the original call's and
\* every replay's) carry the same queued flag, journal entry id, obligation id,
\* amount_usd_cents and payout queue id.
C4_IdempotentResponses ==
    \A k \in Keys : Cardinality(returned[k]) <= 1

RECURSIVE OpenSumN(_, _, _)
\* Sum of amount_usd_cents over the OPEN obligations from f to t among the first n.
OpenSumN(f, t, n) ==
    IF n = 0 THEN 0
    ELSE OpenSumN(f, t, n - 1)
         + (IF /\ obligations[n].status = "OPEN"
               /\ obligations[n].from_pool = f /\ obligations[n].to_pool = t
            THEN obligations[n].amount_usd_cents ELSE 0)

OpenSum(f, t) == OpenSumN(f, t, Len(obligations))

\* The OPEN obligations between the two pools a and b, in either direction.
OpenBetween(a, b) ==
    { i \in DOMAIN obligations :
        /\ obligations[i].status = "OPEN"
        /\ {obligations[i].from_pool, obligations[i].to_pool} = {a, b} }

\* The instructions a settle response holds for the pools a and b.
InstructionsFor(resp, a, b) ==
    { i \in DOMAIN resp.settlements :
        {resp.settlements[i].payer, resp.settlements[i].payee} = {a, b} }

\* C5: a settle_run emits at most one instruction per pair of distinct pools with
\* OPEN obligations; when |net| > threshold it emits exactly one, whose amount is
\* |sum(A->B) - sum(B->A)| and whose payer is the pool with the larger outgoing
\* sum, and every OPEN obligation of the pair becomes SETTLED.
C5_NettingCorrectness ==
    [][ last'.op = "settle" =>
        \A a \in DOMAIN accounts : \A b \in DOMAIN accounts \ {a} :
            LET ab == OpenSum(a, b)
                ba == OpenSum(b, a)
                instr == InstructionsFor(last'.resp, a, b)
            IN  OpenBetween(a, b) # {} =>
                  /\ Cardinality(instr) <= 1
                  /\ Abs(ab - ba) > last'.req =>
                       /\ Cardinality(instr) = 1
                       /\ \A i \in instr :
                            /\ last'.resp.settlements[i].amount_usd_cents = Abs(ab - ba)
                            /\ last'.resp.settlements[i].payer = (IF ab > ba THEN a ELSE b)
                            /\ last'.resp.settlements[i].payee = (IF ab > ba THEN b ELSE a)
                       /\ \A i \in OpenBetween(a, b) : obligations'[i].status = "SETTLED"
      ]_vars

\* POOL_UK -> WORKER_B: 100 and WORKER_B -> POOL_UK: 30, settled with threshold 0
\* by the single instruction {payer POOL_UK, payee WORKER_B, amount 70}.
C5_Witness ==
    /\ last.op = "settle" /\ last.req = 0
    /\ last.resp.settlements =
          <<[payer |-> "POOL_UK", payee |-> "WORKER_B", amount_usd_cents |-> 70]>>
    /\ Len(obligations) = 2
    /\ \A i \in DOMAIN obligations : obligations[i].status = "SETTLED"
    /\ \E i \in DOMAIN obligations :
          /\ obligations[i].from_pool = "POOL_UK" /\ obligations[i].to_pool = "WORKER_B"
          /\ obligations[i].amount_usd_cents = 100
    /\ \E i \in DOMAIN obligations :
          /\ obligations[i].from_pool = "WORKER_B" /\ obligations[i].to_pool = "POOL_UK"
          /\ obligations[i].amount_usd_cents = 30

\* C6: a settle_run emits no instruction for a pair of distinct pools whose
\* |net| <= threshold and leaves each of that pair's OPEN obligations as it was
\* (OPEN, no settlement_batch_id), whatever else the run settles.
C6_ThresholdExclusion ==
    [][ last'.op = "settle" =>
        \A a \in DOMAIN accounts : \A b \in DOMAIN accounts \ {a} :
            Abs(OpenSum(a, b) - OpenSum(b, a)) <= last'.req =>
               /\ InstructionsFor(last'.resp, a, b) = {}
               /\ \A i \in OpenBetween(a, b) :
                     /\ obligations'[i].status = "OPEN"
                     /\ obligations'[i].settlement_batch_id = None
      ]_vars

\* A run with threshold 30 that settled one pair and left the pair POOL_UK /
\* WORKER_B, whose net is 30, OPEN.
C6_Witness ==
    /\ last.op = "settle" /\ last.req = 30
    /\ last.resp.settlement_count = 1
    /\ OpenBetween("POOL_UK", "WORKER_B") # {}
    /\ Abs(OpenSum("POOL_UK", "WORKER_B") - OpenSum("WORKER_B", "POOL_UK")) = 30
    /\ \E i \in DOMAIN obligations : obligations[i].status = "SETTLED"

\* C7: a settle_run that directly follows a settle_run with the same threshold
\* returns no instruction and no batch id, and changes no table.
C7_IdempotentSettlement ==
    [][ (last.op = "settle" /\ last'.op = "settle" /\ last'.req = last.req) =>
           /\ last'.resp.settlements = <<>>
           /\ last'.resp.settlement_batch_id = None
           /\ UNCHANGED tables
      ]_vars

\* A run that returned nothing with the threshold of the latest batch, while
\* obligations of an unsettled pair are still OPEN.
C7_Witness ==
    /\ last.op = "settle" /\ last.resp.settlement_count = 0
    /\ settlement_batches # <<>>
    /\ settlement_batches[Len(settlement_batches)].notes = last.req
    /\ \E i \in DOMAIN obligations : obligations[i].status = "OPEN"
    /\ \E i \in DOMAIN obligations : obligations[i].status = "SETTLED"

\* A payout call is fresh when it bears no key or a key no journal entry holds.
Fresh(external_id) ==
    external_id = NoKey \/ EntriesWithKey(external_id) = {}

\* The step is the fresh payout WORKER_B -> POOL_UK of 3000 with POOL_UK at
\* balance 5000 and buffer 1000.
Scenario8 ==
    /\ last'.op = "payout"
    /\ last'.req.from_pool = "WORKER_B" /\ last'.req.to_pool = "POOL_UK"
    /\ last'.req.amount_minor = 3000
    /\ Fresh(last'.req.external_id)
    /\ accounts["WORKER_B"].currency = "EUR" /\ accounts["POOL_UK"].currency = "GBP"
    /\ accounts["POOL_UK"].balance_minor = 5000
    /\ accounts["POOL_UK"].min_buffer_minor = 1000

\* The step executes the payout, appends the OPEN obligation WORKER_B -> POOL_UK
\* of the given amount and leaves POOL_UK at 2000.
Scenario8Result(amount_usd_cents) ==
    /\ last'.status = "EXECUTED"
    /\ Len(obligations') = Len(obligations) + 1
    /\ LET ob == obligations'[Len(obligations')]
       IN  /\ ob.from_pool = "WORKER_B" /\ ob.to_pool = "POOL_UK"
           /\ ob.amount_usd_cents = amount_usd_cents
           /\ ob.status = "OPEN"
    /\ accounts'["POOL_UK"].balance_minor = 2000

\* C8 (as stated): the scenario creates an obligation of 3750 USD cents.
C8_ScenarioAsStated == [][ Scenario8 => Scenario8Result(3750) ]_vars

\* C8 (amended): the scenario is EXECUTED, leaves POOL_UK at 2000 and creates the
\* obligation {from WORKER_B, to POOL_UK, amount_usd_cents = 3300}: the amount is
\* converted at the rate of from_pool's currency (EUR, 1.10).
C8_Scenario == [][ Scenario8 => Scenario8Result(3300) ]_vars

C8_Witness ==
    /\ last.op = "payout" /\ last.status = "EXECUTED"
    /\ last.req.from_pool = "WORKER_B" /\ last.req.to_pool = "POOL_UK"
    /\ last.req.amount_minor = 3000
    /\ opening["POOL_UK"] = 5000 /\ Len(postings) = 1
    /\ accounts["POOL_UK"].min_buffer_minor = 1000
    /\ accounts["POOL_UK"].balance_minor = 2000
    /\ obligations[Len(obligations)].amount_usd_cents = 3300

RaceOver ==
    /\ \A p \in Procs : procs[p].pc = "done"
    /\ \A p \in Procs : \A q \in Procs : procs[p].req = procs[q].req
    /\ \A p \in Procs : procs[p].req.external_id # NoKey

\* C10: when two payouts bearing the same external_id have run concurrently,
\* at most one of them created a journal entry and side effects, the other
\* returned the idempotent replay (DUPLICATE) rather than an internal error, and
\* no extra posting, obligation or queue row is left behind.
C10_IdempotencyRace ==
    RaceOver =>
        /\ \A p \in Procs : procs[p].status \in {"EXECUTED", "QUEUED", "DUPLICATE"}
        /\ Cardinality({p \in Procs : procs[p].status \in {"EXECUTED", "QUEUED"}}) <= 1
        /\ Len(journal_entries) <= 1
        /\ Len(postings) + Len(payout_queue) <= 1
        /\ Len(obligations) <= 1

\* C11: the journal entry of an executed payout, its posting and the balance
\* mutation commit as one unit: in every state another request can read, and in
\* every state a crash leaves behind, each PAYOUT entry has its posting and each
\* account's balance reflects exactly the postings recorded against it.
C11_EntryAtomicity ==
    /\ Len(postings) =
          Cardinality({i \in DOMAIN journal_entries : journal_entries[i].type = "PAYOUT"})
    /\ \A a \in DOMAIN accounts :
          accounts[a].balance_minor - opening[a] = Credits(a) - Debits(a)

\* The ids of the open obligations a settle_run read at its snapshot.
SnapshotIds(r) == {runs[r].snapshot[i].id : i \in DOMAIN runs[r].snapshot}

\* C12: a settle_run that runs concurrently with payouts transitions to SETTLED
\* only obligations of its open-obligation snapshot, and leaves every obligation
\* created after the snapshot as it is (OPEN, no batch).
C12_SettlementIsolation ==
    [][\A r \in Runs :
          (runs[r].pc = "update_obligations" /\ runs'[r].pc = "done") =>
              /\ Len(obligations') = Len(obligations)
              /\ \A i \in DOMAIN obligations :
                    IF obligations[i].id \in SnapshotIds(r)
                    THEN obligations'[i].status = "SETTLED"
                            => obligations[i].id \in runs[r].ids
                    ELSE obligations'[i] = obligations[i]]_vars

\* A finished run settled an obligation of its snapshot while an obligation a
\* payout created after the snapshot is still OPEN.
C12_Witness ==
    \E r \in Runs :
        /\ runs[r].pc = "done"
        /\ \E i \in DOMAIN obligations :
              /\ obligations[i].id \in SnapshotIds(r)
              /\ obligations[i].status = "SETTLED"
        /\ \E j \in DOMAIN obligations :
              /\ obligations[j].id \notin SnapshotIds(r)
              /\ obligations[j].status = "OPEN"

\* C13: a settle_run creates exactly one settlement batch if and only if it emits
\* an instruction; the batch id it returns, and the one every obligation it
\* settles carries, is the id of the batch row just created; when no pair
\* qualifies it creates no batch and returns no batch id.
C13_BatchCreation ==
    [][ last'.op = "settle" =>
          IF last'.resp.settlements = <<>>
          THEN /\ settlement_batches' = settlement_batches
               /\ last'.resp.settlement_batch_id = None
               /\ last'.resp.settlement_count = 0
          ELSE /\ Len(settlement_batches') = Len(settlement_batches) + 1
               /\ LET batch == settlement_batches'[Len(settlement_batches')]
                  IN  /\ last'.resp.settlement_batch_id = Some(batch.id)
                      /\ \A i \in DOMAIN obligations :
                            (obligations[i].status = "OPEN"
                               /\ obligations'[i].status = "SETTLED")
                            => obligations'[i].settlement_batch_id = Some(batch.id)
      ]_vars

\* C14: a payout that fails with AccountNotFound or MissingFxRate leaves the
\* accounts, journal entries, postings, obligations, settlement batches and the
\* payout queue exactly as they were.
C14_ErrorPathsNoSideEffect ==
    [][ (last'.op = "payout" /\ last'.status \in {"AccountNotFound", "MissingFxRate"})
           => UNCHANGED tables ]_vars

\* A payout from a pool whose currency has no rate was rejected on a ledger that
\* already holds rows.
C14_Witness ==
    /\ last.op = "payout" /\ last.status = "MissingFxRate"
    /\ journal_entries # <<>> /\ obligations # <<>>

\* C15: execute_settlement on a settlement that is already executed, or whose
\* recommended amount is <= 0, is rejected with 400 and changes neither the
\* pool balances nor the settlement record; on a proposed settlement with a
\* positive amount it marks the record executed and moves exactly that amount
\* from the paying pool to the receiving pool; and no request changes an
\* executed record again, so the amount is applied exactly once.
C15_SettlementExecutionGuard ==
    [][ /\ \A i \in DOMAIN settlements :
              settlements[i].status = "executed" => settlements'[i] = settlements[i]
        /\ (reply'.op = "execute" /\ reply'.req \in DOMAIN settlements) =>
              LET row == settlements[reply'.req]
                  amount == row.recommended_minor
              IN  IF row.status = "executed" \/ amount <= 0
                  THEN /\ reply'.status = 400
                       /\ UNCHANGED <<pools, settlements>>
                  ELSE /\ reply'.status = 200
                       /\ settlements'[reply'.req].status = "executed"
                       /\ settlements'[reply'.req].executed_minor = Some(amount)
                       /\ pools'[row.from_country] = pools[row.from_country] - amount
                       /\ pools'[row.to_country] = pools[row.to_country] + amount
      ]_vars

\* A second execute of a settlement that moved a positive amount was rejected.
C15_Witness ==
    /\ reply.op = "execute"
    /\ reply.status = 400
    /\ reply.resp = "Settlement already executed"
    /\ reply.req \in DOMAIN settlements
    /\ \E x \in 1..MaxBalance : settlements[reply.req].executed_minor = Some(x)

\* C16: every top-up of an existing account succeeds, records one TOPUP journal
\* entry with one CREDIT posting, and leaves the account's balance_minor no
\* lower than it was before the call.
C16_TopupOnlyIncreases ==
    [][ (last'.op = "topup" /\ last'.status = "OK") =>
            /\ Len(journal_entries') = Len(journal_entries) + 1
            /\ journal_entries'[Len(journal_entries')].type = "TOPUP"
            /\ Len(postings') = Len(postings) + 1
            /\ postings'[Len(postings')].direction = "CREDIT"
            /\ accounts'[last'.req.account_id].balance_minor
                   >= accounts[last'.req.account_id].balance_minor
      ]_vars

\* C17: a call that carries an external id some journal entry already holds
\* creates no new journal row and does not fail: the insert of the journal
\* entry answers with the existing entry instead of raising.
C17_AppendJournalEntrySeam ==
    [][ (last'.op = "payout" /\ ViolatesUnique(journal_entries, last'.req.external_id)) =>
            /\ journal_entries' = journal_entries
            /\ last'.status # "InternalError"
      ]_vars

\* C18: the journal_entry_id and obligation_id an executed payout returns are the
\* ids of the journal entry and the obligation this call created, the DEBIT
\* posting it wrote carries that journal entry's id as entry_id, and the journal
\* entry's metadata holds {obligation_id, amount_usd_cents, queued: false}.
C18_ReturnedIdsAreReferences ==
    [][ (last'.op = "payout" /\ last'.status = "EXECUTED"
         /\ Len(journal_entries') = Len(journal_entries) + 1) =>
            LET entry == journal_entries'[Len(journal_entries')]
                obligation == obligations'[Len(obligations')]
                posting == postings'[Len(postings')]
            IN  /\ last'.resp.journal_entry_id = Some(entry.id)
                /\ last'.resp.obligation_id = Some(obligation.id)
                /\ posting.direction = "DEBIT"
                /\ posting.entry_id = entry.id
                /\ entry.metadata_json =
                       Some([obligation_id |-> obligation.id,
                             amount_usd_cents |-> obligation.amount_usd_cents,
                             queued |-> FALSE])
      ]_vars

\* C19: a payout call whose external id already has a journal entry returns the
\* stored result whatever from_pool, to_pool and amount_minor it carries: it
\* writes nothing and never ends in AccountNotFound or MissingFxRate, because
\* the idempotency lookup is decided before the accounts are resolved.
C19_ReplayIgnoresPayload ==
    [][ (/\ last'.op = "payout"
         /\ Truthy(last'.req.external_id)
         /\ EntriesWithKey(last'.req.external_id) # {}) =>
            /\ UNCHANGED tables
            /\ last'.status \notin {"AccountNotFound", "MissingFxRate"}
      ]_vars

\* Rows of the payments table that hold the idempotency key k.
PaymentsWithKey(table, k) == { i \in DOMAIN table : table[i].idempotency_key = k }

\* C20: a POST /payments call without an Idempotency-Key is rejected with 400
\* and creates no row; a call with a key answers 200 and leaves exactly one
\* payment row for that key: a first use creates it, a reuse creates nothing and
\* returns the id, status and payment-intent id of the existing row; no two
\* rows ever share a key.
C20_PaymentIntakeIdempotency ==
    [][ /\ \A i, j \in DOMAIN payments' :
              payments'[i].idempotency_key = payments'[j].idempotency_key => i = j
        /\ reply'.op = "payment" =>
              IF ~ Truthy(reply'.req)
              THEN reply'.status = 400 /\ payments' = payments
              ELSE LET before == PaymentsWithKey(payments, reply'.req)
                       after == PaymentsWithKey(payments', reply'.req)
                   IN  /\ reply'.status = 200
                       /\ Cardinality(after) = 1
                       /\ \A i \in after :
                              /\ reply'.resp.id = payments'[i].id
                              /\ reply'.resp.status = payments'[i].status
                              /\ reply'.resp.stripe_payment_intent_id =
                                     payments'[i].stripe_payment_intent_id
                       /\ IF before # {}
                          THEN payments' = payments
                          ELSE Len(payments') = Len(payments) + 1
      ]_vars

\* The key of the first payment was reused after a second payment was taken
\* and the first had succeeded: the reply carries the first row.
C20_Witness ==
    /\ reply.op = "payment"
    /\ reply.status = 200
    /\ Len(payments) = 2
    /\ reply.resp.id = 1
    /\ reply.resp.status = "succeeded"
    /\ payments[1].idempotency_key = reply.req

\* C21: a payment_intent.succeeded webhook for an existing payment that is not
\* yet succeeded marks it succeeded and raises its country's pool balance by
\* exactly the payment's amount, leaving the other pool alone; the same event
\* for a payment that is already succeeded changes no pool and no payment.
C21_WebhookCredit ==
    [][ (/\ reply'.op = "webhook"
         /\ reply'.req[1] = "payment_intent.succeeded"
         /\ PaymentsOfIntent(reply'.req[2]) # {}) =>
            LET i == CHOOSE j \in PaymentsOfIntent(reply'.req[2]) : TRUE
                country == payments[i].country
            IN  IF payments[i].status # "succeeded"
                THEN /\ payments'[i].status = "succeeded"
                     /\ pools'[country] = pools[country] + payments[i].amount_minor
                     /\ \A c \in Countries \ {country} : pools'[c] = pools[c]
                ELSE UNCHANGED <<pools, payments>>
      ]_vars

\* Starting from 0, the succeeded webhook of the one payment taken so far left
\* its pool at exactly the payment's amount.
C21_Witness ==
    /\ reply.op = "webhook"
    /\ reply.req[1] = "payment_intent.succeeded"
    /\ reply.resp.handled
    /\ Len(payments) = 1
    /\ payments[1].status = "succeeded"
    /\ pools[payments[1].country] = payments[1].amount_minor
    /\ settlements = <<>>

\* The step is a payout that was executed by this call (not a replay).
ExecutedNow ==
    /\ last'.op = "payout"
    /\ last'.status = "EXECUTED"
    /\ Len(journal_entries') = Len(journal_entries) + 1

\* What an executed payout writes: one PAYOUT entry, one DEBIT posting of
\* amount_minor against to_pool, one OPEN obligation from from_pool to to_pool
\* valued at from_pool's currency rate, and to_pool's balance lowered by
\* amount_minor.
ExecutedEffect ==
    LET req == last'.req
        entry == journal_entries'[Len(journal_entries')]
        posting == postings'[Len(postings')]
        obligation == obligations'[Len(obligations')]
    IN  /\ entry.type = "PAYOUT"
        /\ Len(postings') = Len(postings) + 1
        /\ posting.direction = "DEBIT"
        /\ posting.amount_minor = req.amount_minor
        /\ posting.account_id = req.to_pool
        /\ Len(obligations') = Len(obligations) + 1
        /\ obligation.status = "OPEN"
        /\ obligation.from_pool = req.from_pool
        /\ obligation.to_pool = req.to_pool
        /\ obligation.amount_usd_cents =
               convert_to_usd_cents(req.amount_minor,
                                    FxRates[accounts[req.from_pool].currency])
        /\ accounts'[req.to_pool].balance_minor =
               accounts[req.to_pool].balance_minor - req.amount_minor

\* C22 as stated: an executed payout has the effect above and leaves the balance
\* of from_pool and of every other account unchanged.
C22_ExecutedEffectAsStated ==
    [][ ExecutedNow =>
            /\ ExecutedEffect
            /\ accounts'[last'.req.from_pool].balance_minor =
                   accounts[last'.req.from_pool].balance_minor
            /\ \A a \in DOMAIN accounts \ {last'.req.to_pool} : accounts'[a] = accounts[a]
      ]_vars

\* C22: an executed payout has the effect above and leaves every account other
\* than to_pool unchanged; from_pool's balance is unchanged when it is a
\* different account.
C22_ExecutedEffect ==
    [][ ExecutedNow =>
            /\ ExecutedEffect
            /\ \A a \in DOMAIN accounts \ {last'.req.to_pool} : accounts'[a] = accounts[a]
      ]_vars

\* A payout between two different accounts was executed.
C22_Witness ==
    /\ last.op = "payout"
    /\ last.status = "EXECUTED"
    /\ last.req.from_pool # last.req.to_pool
    /\ Len(obligations) = 1
    /\ obligations[1].from_pool = last.req.from_pool
    /\ accounts[last.req.to_pool].balance_minor =
           opening[last.req.to_pool] - last.req.amount_minor

C24_PostingAmountsPositive ==
    \A i \in DOMAIN postings : postings[i].amount_minor > 0

\* The step is an execute_transfer call returning.
TransferStep == outcome'.op = "transfer" /\ UNCHANGED settle_call

\* C25: execute_transfer rejects the request when the destination pool's
\* balance is lower than amount_minor; every rejection (unknown pool,
\* insufficient liquidity, missing FX rate) leaves pools, obligations and
\* transfers unchanged; and no successful execute_transfer leaves the
\* destination pool's balance negative.
C25_StrictTransfer ==
    [][ TransferStep =>
            LET req == outcome'.req
            IN  /\ ( /\ req.from_pool_id \in DOMAIN strict_pools
                     /\ req.to_pool_id \in DOMAIN strict_pools
                     /\ strict_pools[req.to_pool_id].balance < req.amount_minor )
                       => outcome'.status = 400
                /\ outcome'.status # 200 =>
                       UNCHANGED <<strict_pools, strict_obligations, transfers>>
                /\ outcome'.status = 200 =>
                       /\ strict_pools'[req.to_pool_id].balance >= 0
                       /\ Len(transfers') = Len(transfers) + 1
      ]_vars

\* After a transfer went through, another was rejected for lack of liquidity.
C25_Witness ==
    /\ outcome.op = "transfer"
    /\ outcome.status = 400
    /\ outcome.resp = "Insufficient liquidity"
    /\ Len(transfers) >= 1

\* C26: every obligation a settle_obligations call flips to SETTLED was in the
\* open set that call fetched and netted; an obligation created after the
\* fetch is not marked SETTLED by that call.
C26_StrictSettlementConsistency ==
    [][ (settle_call.pc = "fetched" /\ settle_call'.pc = "idle") =>
            \A i \in DOMAIN strict_obligations :
                (strict_obligations[i].status = "OPEN"
                 /\ strict_obligations'[i].status = "SETTLED")
                    => i \in settle_call.fetched
      ]_vars

\* C28: when two concurrent payouts without a shared external id have both been
\* executed against the same to_pool, that pool's balance_minor is not below
\* its min_buffer_minor.
C28_BufferUnderConcurrency ==
    ( /\ \A p \in Procs : procs[p].pc = "done" /\ procs[p].status = "EXECUTED"
      /\ \A p \in Procs : procs[p].req.external_id = NoKey
      /\ \A p, q \in Procs : procs[p].req.to_pool = procs[q].req.to_pool )
        => \A p \in Procs :
               accounts[procs[p].req.to_pool].balance_minor
                   >= accounts[procs[p].req.to_pool].min_buffer_minor

\* C27: when two concurrent settle_run calls have both returned, no obligation
\* was netted into the instructions of both, so no debt is instructed twice
\* and no obligation is assigned to two batches.
C27_NoDoubleSettlement ==
    \A r1, r2 \in Runs :
        (r1 # r2 /\ runs[r1].pc = "done" /\ runs[r2].pc = "done")
            => runs[r1].ids \cap runs[r2].ids = {}

\* Amounts of all payments taken for a country, whatever their status.
PaymentAmounts(country) ==
    LET rows == SelectSeq(payments, LAMBDA r : r.country = country)
    IN  [i \in DOMAIN rows |-> rows[i].amount_minor]

\* executed_minor of the executed settlements a country received.
Received(country) ==
    LET rows == SelectSeq(settlements,
                    LAMBDA r : r.to_country = country /\ r.status = "executed")
    IN  [i \in DOMAIN rows |-> CHOOSE x \in rows[i].executed_minor : TRUE]

\* C30: whatever succeeded, failed and reconcile events arrive for a payment
\* intent, the payment's amount is added to its country's pool at most once:
\* a pool never holds more than the amounts of its country's payments, plus
\* the executed settlements it received, minus those it paid.
C30_CreditedAtMostOnce ==
    \A c \in Countries :
        pools[c] <= SumSeq(PaymentAmounts(c)) + SumSeq(Received(c)) - SumSeq(Outflows(c))

\* C29: after any sequence of run_settlement and execute_settlement calls, with
\* pools that start at 0 and are otherwise only credited by succeeded payments,
\* no pool's balance_minor is negative.
C29_NeverOverdraws ==
    \A c \in Countries : pools[c] >= 0

====
